---- MODULE Spec2Model ----
(***************************************************************************)
(* Model of the mock gateway: the session registry (session.rs), the write *)
(* side and the per-connection protocol state machine (handler.rs), the    *)
(* script driver (script.rs) and the acceptor (main.rs).                   *)
(*                                                                         *)
(* Tasks of the multi-threaded runtime are separate processes here: one    *)
(* read loop, one write forwarder and any number of script drivers per     *)
(* connection.  A step of a task ends at each access to an object another  *)
(* task can touch at the same time (the registry mutex, the atomic         *)
(* sequence counter, the channel).                                         *)
(***************************************************************************)
EXTENDS Integers, Sequences, FiniteSets, TLC

(* ------------------------------ bounds -------------------------------- *)

\* Number of connections the acceptor takes.
NumConns == 2

\* Total number of inbound websocket messages the clients send.
MaxInbound == 2

\* Size of the pool the random session ids are drawn from.
NumSessionIds == 2

(* ------------------------- option and helpers ------------------------- *)

None == <<>>

Some(x) == <<x>>

IsSome(o) == o # <<>>

Unwrap(o) == o[1]

\* Option::contains
OptionContains(o, x) == o = <<x>>

Conns == 1..NumConns

SessionIds == 1..NumSessionIds

(* ------------------------------ config -------------------------------- *)

\* CONFIG.bot.token, as a string of characters.
BotToken == <<"T">>

BotPrefix == <<"B", "o", "t", " ">>

\* str::strip_prefix
strip_prefix(s, prefix) ==
    IF Len(s) >= Len(prefix) /\ SubSeq(s, 1, Len(prefix)) = prefix
    THEN Some(SubSeq(s, Len(prefix) + 1, Len(s)))
    ELSE None

\* Intents::all(), the bits that matter to the gate and one that does not.
AllIntents == {"GUILDS", "GUILD_MEMBERS", "GUILD_PRESENCES", "MESSAGE_CONTENT"}

\* Bot::allowed_intents
allowed_intents(application_flags) ==
    LET presences ==
            IF application_flags \cap {"GATEWAY_PRESENCE", "GATEWAY_PRESENCE_LIMITED"} = {}
            THEN {"GUILD_PRESENCES"} ELSE {}
        members ==
            IF application_flags
                 \cap {"GATEWAY_GUILD_MEMBERS", "GATEWAY_GUILD_MEMBERS_LIMITED"} = {}
            THEN {"GUILD_MEMBERS"} ELSE {}
        content ==
            IF application_flags
                 \cap {"GATEWAY_MESSAGE_CONTENT", "GATEWAY_MESSAGE_CONTENT_LIMITED"} = {}
            THEN {"MESSAGE_CONTENT"} ELSE {}
    IN  ((AllIntents \ presences) \ members) \ content

\* Intents::contains: every bit of `other` is set in `allowed`.
IntentsContains(allowed, other) == other \subseteq allowed

\* The token check of Identify and Resume.
TokenOk(token) == OptionContains(strip_prefix(token, BotPrefix), BotToken)

(* ------------------------------ script -------------------------------- *)

Action(kind, flag, event_type) == [kind |-> kind, flag |-> flag, event_type |-> event_type]

\* Result<T, ParseError>.
Ok(value) == [ok |-> TRUE, value |-> value]

Err(error) == [ok |-> FALSE, value |-> error]

\* A line of script.txt is the sequence of its words, the pieces between
\* single spaces; the file is the sequence of its lines.

\* The argument tails str::parse::<u64> accepts.
IntegerTexts == {<< "100" >>}

\* The JSON texts simd_json::from_str accepts.
JsonTexts == {<< "{}" >>}

\* Action::try_from((action_name, arguments)).
try_from(action_name, arguments) ==
    CASE action_name \in {"sleep_ms", "sleep_s"} ->
            IF arguments = None THEN Err("MissingRequiredArgument")
            ELSE IF Unwrap(arguments) \in IntegerTexts
            THEN Ok(Action("Sleep", FALSE, ""))
            ELSE Err("ExpectedInteger")
      [] action_name = "invalidate_session" ->
            IF arguments = None THEN Err("MissingRequiredArgument")
            ELSE IF Unwrap(arguments) = << "true" >>
            THEN Ok(Action("InvalidateSession", TRUE, ""))
            ELSE IF Unwrap(arguments) = << "false" >>
            THEN Ok(Action("InvalidateSession", FALSE, ""))
            ELSE Err("ExpectedBoolean")
      [] action_name = "dispatch" ->
            IF arguments = None THEN Err("MissingRequiredArgument")
            ELSE IF Len(Unwrap(arguments)) < 2 THEN Err("MissingRequiredArgument")
            ELSE IF Tail(Unwrap(arguments)) \in JsonTexts
            THEN Ok(Action("Dispatch", FALSE, Head(Unwrap(arguments))))
            ELSE Err("InvalidJson")
      [] action_name = "heartbeat" -> Ok(Action("Heartbeat", FALSE, ""))
      [] action_name = "random_message_create" -> Ok(Action("RandomMessageCreate", FALSE, ""))
      [] action_name = "random_guild_create" -> Ok(Action("RandomGuildCreate", FALSE, ""))
      [] action_name = "graceful_close" -> Ok(Action("GracefulClose", FALSE, ""))
      [] action_name = "abrupt_close" -> Ok(Action("AbruptClose", FALSE, ""))
      [] OTHER -> Err("InvalidAction")

\* script::parse, the loop over input.lines() with `actions` so far.
RECURSIVE parse_lines(_, _)
parse_lines(lines, actions) ==
    IF lines = << >> THEN Ok(actions)
    ELSE IF Head(lines) = << >> THEN parse_lines(Tail(lines), actions)
    ELSE LET line == Head(lines)
             action == try_from(Head(line),
                                IF Len(line) > 1 THEN Some(Tail(line)) ELSE None)
         IN  IF action.ok
             THEN parse_lines(Tail(lines), Append(actions, action.value))
             ELSE action

\* script::parse.
parse(input) == parse_lines(input, << >>)

\* The contents script.txt may have: three files that parse and one with
\* an unknown action on its second line.
ScriptFiles ==
    { << << "dispatch", "MESSAGE_CREATE", "{}" >>,
         << "invalidate_session", "true" >> >>,
      << << "heartbeat" >>,
         << "graceful_close" >> >>,
      << << "sleep_ms", "100" >>,
         << >>,
         << "dispatch", "MESSAGE_CREATE", "{}" >> >>,
      << << "heartbeat" >>,
         << "explode" >> >> }

\* The values config.json may hold: scenarios and application flags.
Configs ==
    [ unanswered_heartbeats : BOOLEAN,
      expired_sessions : BOOLEAN,
      application_flags : {{"GATEWAY_PRESENCE"}} ]

(* ------------------------------ frames -------------------------------- *)

HEARTBEAT_INTERVAL == 41250

PAYLOAD_DECODE_ERROR_MSG == "Error while decoding payload."

DISALLOWED_INTENTS_ERROR_MSG == "Disallowed intent(s)."

AUTHENTICATION_FAILED_ERROR_MSG == "Authentication failed."

\* GatewayEventData, outbound variants.  Fields a variant lacks hold a
\* neutral value.
Data(variant, heartbeat_interval, session_id, resumable, event_type) ==
    [ variant |-> variant, heartbeat_interval |-> heartbeat_interval,
      session_id |-> session_id, resumable |-> resumable,
      event_type |-> event_type ]

\* GatewayEventData::hello
hello == Data("Hello", HEARTBEAT_INTERVAL, 0, FALSE, "")

\* GatewayEventData::ready
ready(session_id) == Data("Ready", 0, session_id, FALSE, "")

\* GatewayEventData::raw_dispatch
raw_dispatch(event_type) == Data("RawDispatch", 0, 0, FALSE, event_type)

Resumed == Data("Resumed", 0, 0, FALSE, "")

InvalidSession(resumable) == Data("InvalidSession", 0, 0, resumable, "")

\* GatewayEventData::dispatch_event_name
dispatch_event_name(event) ==
    CASE event.variant = "Ready" -> Some("READY")
      [] event.variant = "Resumed" -> Some("RESUMED")
      [] event.variant = "RawDispatch" -> Some(event.event_type)
      [] OTHER -> None

GatewayEvent(t, s, op, d) == [t |-> t, s |-> s, op |-> op, d |-> d]

\* heartbeat_ack with the op code of the server's own heartbeat.
heartbeat_ack_as_heartbeat == GatewayEvent(None, None, "Heartbeat", None)

\* GatewayEvent::heartbeat_ack
heartbeat_ack == GatewayEvent(None, None, "HeartbeatAck", None)

\* GatewayEvent::heartbeat
heartbeat == GatewayEvent(None, None, "HeartbeatAck", None)

\* From with the s of the InvalidSession arm filled in.
FromData_seq_on_invalid_session(sequence, event) ==
    CASE event.variant = "Hello" -> GatewayEvent(None, None, "Hello", Some(event))
      [] event.variant = "InvalidSession" ->
            GatewayEvent(None, Some(sequence), "InvalidSession", Some(event))
      [] OTHER ->
            GatewayEvent(dispatch_event_name(event), Some(sequence), "Dispatch", Some(event))

\* impl From<(u64, GatewayEventData)> for GatewayEvent
FromData(sequence, event) ==
    CASE event.variant = "Hello" -> GatewayEvent(None, None, "Hello", Some(event))
      [] event.variant = "Heartbeat" -> GatewayEvent(None, None, "Heartbeat", Some(event))
      [] event.variant = "Identify" -> GatewayEvent(None, None, "Identify", Some(event))
      [] event.variant = "Resume" -> GatewayEvent(None, None, "Resume", Some(event))
      [] event.variant = "InvalidSession" ->
            GatewayEvent(None, None, "InvalidSession", Some(event))
      [] OTHER ->
            GatewayEvent(dispatch_event_name(event), Some(sequence), "Dispatch", Some(event))

\* Message::Text(json) of WriteHandle::send: the envelope's four fields.
TextMessage(event) ==
    [ kind |-> "Text", t |-> event.t, s |-> event.s, op |-> event.op,
      d |-> event.d, code |-> 0, reason |-> "" ]

\* Message::Close(Some(CloseFrame { code, reason })) of WriteHandle::close.
CloseMessage(close_code, reason) ==
    [ kind |-> "Close", t |-> None, s |-> None, op |-> "", d |-> None,
      code |-> close_code, reason |-> reason ]

(* ------------------------------ registry ------------------------------ *)

\* Session::from(&IdentifyInfo)
SessionFrom(identify) ==
    [ shard_id |-> identify.shard, compress |-> identify.compress,
      intents |-> identify.intents ]

\* create_session without the insert.
create_session_no_insert(reg, session_id, identify) == reg

\* The HashMap::insert of Sessions::create_session.
create_session(reg, session_id, identify) ==
    [ k \in DOMAIN reg \cup {session_id} |->
        IF k = session_id THEN SessionFrom(identify) ELSE reg[k] ]

\* Sessions::exists
exists(reg, session_id) == session_id \in DOMAIN reg

\* destroy_session without the remove.
destroy_session_no_remove(reg, session_id) == reg

\* destroy_session that removes a key that is there and inserts one that is not.
destroy_session_toggle(reg, session_id) ==
    IF session_id \in DOMAIN reg
    THEN [ k \in DOMAIN reg \ {session_id} |-> reg[k] ]
    ELSE [ k \in DOMAIN reg \cup {session_id} |->
             IF k = session_id THEN [shard_id |-> None, compress |-> FALSE, intents |-> {}]
             ELSE reg[k] ]

\* Sessions::destroy_session
destroy_session(reg, session_id) ==
    [ k \in DOMAIN reg \ {session_id} |-> reg[k] ]

(* --------------------------- inbound messages -------------------------- *)

ValidToken == BotPrefix \o BotToken

WrongToken == BotPrefix \o <<"X">>

NoPrefixToken == BotToken

\* IdentifyInfo and ResumeInfo as the client sends them (GatewayEventData
\* variants Identify and Resume), and a payload of another variant.
IdentifyInfo(token, intents) ==
    [ variant |-> "Identify", token |-> token, intents |-> intents,
      shard |-> None, compress |-> FALSE, session_id |-> 0 ]

ResumeInfo(token, session_id) ==
    [ variant |-> "Resume", token |-> token, intents |-> {},
      shard |-> None, compress |-> FALSE, session_id |-> session_id ]

HeartbeatData ==
    [ variant |-> "Heartbeat", token |-> <<>>, intents |-> {},
      shard |-> None, compress |-> FALSE, session_id |-> 0 ]

\* A websocket message of the client; `decoded` is the result of
\* simd_json::from_slice::<GatewayEvent>, None when decoding fails.
Msg(kind, decoded) == [kind |-> kind, decoded |-> decoded]

Ev(op, d) == [op |-> op, d |-> d]

NoMsg == Msg("", None)

Inbound ==
    { Msg("Text", Some(Ev("Identify", Some(IdentifyInfo(tok, int))))) :
        tok \in {ValidToken, WrongToken}, int \in {{"GUILDS"}, {"GUILDS", "GUILD_MEMBERS"}} }
    \cup { Msg("Text", Some(Ev("Identify", Some(IdentifyInfo(NoPrefixToken, {}))))) }
    \cup { Msg("Text", Some(Ev("Identify", None))) }
    \cup { Msg("Text", Some(Ev("Resume", Some(ResumeInfo(ValidToken, sid))))) :
             sid \in SessionIds }
    \cup { Msg("Text", Some(Ev("Resume", Some(ResumeInfo(WrongToken, 1))))) }
    \cup { Msg("Binary", Some(Ev("Resume", Some(HeartbeatData)))) }
    \cup { Msg("Text", Some(Ev("Heartbeat", None))) }
    \cup { Msg("Text", Some(Ev("PresenceUpdate", None))) }
    \cup { Msg("Text", None) }
    \cup { Msg("Ping", None) }

\* GatewayEvent::into_identify / GatewayEventData::into_identify
into_identify(event) ==
    IF IsSome(event.d) /\ Unwrap(event.d).variant = "Identify"
    THEN Some(Unwrap(event.d)) ELSE None

\* GatewayEvent::into_resume / GatewayEventData::into_resume
into_resume(event) ==
    IF IsSome(event.d) /\ Unwrap(event.d).variant = "Resume"
    THEN Some(Unwrap(event.d)) ELSE None

(* ------------------------------- state --------------------------------- *)

VARIABLES
    config,      \* CONFIG: scenarios and application flags
    script_txt,  \* script.txt: the lines of the file
    SCRIPT,      \* config::SCRIPT, the LazyLock: None until its initialiser has returned
    exited,      \* the process has called exit(1)
    sessions,    \* Sessions: session id -> Session
    rl,          \* per connection: where its read loop (Connection::handle) is
    cur,         \* per connection: the message the read loop took last
    inbound,     \* number of messages the clients have sent so far
    rl_sid,      \* read loop local: session_id of process (0 outside its scope)
    rl_seq,      \* read loop local: sequence of send_data (0 outside its scope)
    sequence,    \* WriteHandle.sequence
    session_id,  \* ConnectionState.session_id (OnceLock)
    queue,       \* per connection: every message enqueued on the channel, in order
    fwd,         \* per connection: write_forward_task, "none" | "running" | "exited"
    drivers,     \* per connection: the script::run tasks spawned by set_ready
    issued       \* per session id: the last registry mutation issued for it

vars == << config, script_txt, SCRIPT, exited, sessions, rl, cur, inbound, rl_sid, rl_seq, sequence,
           session_id, queue, fwd, drivers, issued >>

Init ==
    /\ config \in Configs
    /\ script_txt \in ScriptFiles
    /\ SCRIPT = None
    /\ exited = FALSE
    /\ sessions = <<>>
    /\ rl = [c \in Conns |-> "idle"]
    /\ cur = [c \in Conns |-> NoMsg]
    /\ inbound = 0
    /\ rl_sid = [c \in Conns |-> 0]
    /\ rl_seq = [c \in Conns |-> 0]
    /\ sequence = [c \in Conns |-> 0]
    /\ session_id = [c \in Conns |-> None]
    /\ queue = [c \in Conns |-> <<>>]
    /\ fwd = [c \in Conns |-> "none"]
    /\ drivers = [c \in Conns |-> <<>>]
    /\ issued = [s \in SessionIds |-> "none"]

(* ------------------------- history of the registry -------------------- *)

\* `issued` records, per session id, the last registry mutation issued for
\* it: "none", "create", "destroy" (of an id that was created since the
\* last destroy) or "destroy_again" (of an id destroyed already).
IssueCreate(sid) == [issued EXCEPT ![sid] = "create"]

IssueDestroy(sid) ==
    [issued EXCEPT ![sid] = IF @ = "create" THEN "destroy" ELSE "destroy_again"]

(* ------------------------------ write side ----------------------------- *)

\* mpsc::UnboundedSender::send succeeds while the receiver exists.
SendOk(c) == fwd[c] = "running"

\* The channel after sender.send(msg): unchanged when the send fails.
Enqueue(c, msg) == IF SendOk(c) THEN [queue EXCEPT ![c] = Append(@, msg)] ELSE queue

\* WriteHandle::send_data, `let sequence = ...`: the value fetch_add returns
\* for a dispatch payload, 0 for any other.
send_data_sequence(c, event) ==
    IF IsSome(dispatch_event_name(event)) THEN sequence[c] ELSE 0

\* WriteHandle::send_data: the counter after that statement.
send_data_fetch_add(c, event) ==
    IF IsSome(dispatch_event_name(event))
    THEN [sequence EXCEPT ![c] = @ + 1] ELSE sequence

\* set_session_id on a slot that takes every write.
set_session_id_overwrite(slot, sid) == Some(sid)

\* OnceLock::set of set_session_id: the first value stays.
set_session_id(slot, sid) == IF slot = None THEN Some(sid) ELSE slot

\* A new script::run task: about to run the first action.
NewDriver == [pc |-> 1, step |-> 0, seq |-> 0]

\* script::run has come to the end of `for action in SCRIPT.iter()`.
DriverDone(d) == IsSome(SCRIPT) /\ d.pc > Len(Unwrap(SCRIPT))

(* ------------------------------ read loop ------------------------------ *)

\* Every step of every task below starts with ~exited: nothing runs once
\* the process has called exit.

\* Where the read loop goes after a send: on with the loop, or out of
\* handle with Error::Sending (the `?` of process and handle).
AfterSend(c, next) == [rl EXCEPT ![c] = IF SendOk(c) THEN next ELSE "done"]

\* main::run: accept a connection; Connection::new builds the channel, the
\* counter at 0, the empty session id slot, and spawns write_forward_task.
Accept(c) ==
    /\ ~exited
    /\ rl[c] = "idle"
    /\ \A b \in Conns : b < c => rl[b] # "idle"
    /\ rl' = [rl EXCEPT ![c] = "hello"]
    /\ fwd' = [fwd EXCEPT ![c] = "running"]
    /\ sequence' = [sequence EXCEPT ![c] = 0]
    /\ session_id' = [session_id EXCEPT ![c] = None]
    /\ UNCHANGED << config, script_txt, SCRIPT, exited, sessions, cur, inbound, rl_sid, rl_seq, queue,
                    drivers, issued >>

\* handle without its first statement.
SendHello_skipped(c) ==
    /\ ~exited
    /\ rl[c] = "hello"
    /\ rl' = [rl EXCEPT ![c] = "read"]
    /\ UNCHANGED << config, script_txt, SCRIPT, exited, sessions, cur, inbound, rl_sid, rl_seq, sequence,
                    session_id, queue, fwd, drivers, issued >>

\* Connection::handle, first statement: send_data(GatewayEventData::hello()).
SendHello(c) ==
    /\ ~exited
    /\ rl[c] = "hello"
    /\ sequence' = send_data_fetch_add(c, hello)
    /\ queue' = Enqueue(c, TextMessage(FromData(send_data_sequence(c, hello), hello)))
    /\ rl' = AfterSend(c, "read")
    /\ UNCHANGED << config, script_txt, SCRIPT, exited, sessions, cur, inbound, rl_sid, rl_seq, session_id,
                    fwd, drivers, issued >>

\* close that sends InvalidSession(false) ahead of the close frame.
close_after_invalid_session(c, close_code, reason) ==
    /\ queue' = IF SendOk(c)
                THEN [queue EXCEPT ![c] = Append(Append(@,
                          TextMessage(FromData(0, InvalidSession(FALSE)))),
                          CloseMessage(close_code, reason))]
                ELSE queue
    /\ rl' = AfterSend(c, "read")
    /\ UNCHANGED << sessions, rl_sid, issued >>

\* WriteHandle::close from the read loop.
close(c, close_code, reason) ==
    /\ queue' = Enqueue(c, CloseMessage(close_code, reason))
    /\ rl' = AfterSend(c, "read")
    /\ UNCHANGED << sessions, rl_sid, issued >>

\* invalidate_session without the test for a bound session id.
invalidate_session_unbound(c) ==
    /\ sessions' = IF IsSome(session_id[c])
                   THEN destroy_session(sessions, Unwrap(session_id[c])) ELSE sessions
    /\ issued' = IF IsSome(session_id[c]) THEN IssueDestroy(Unwrap(session_id[c])) ELSE issued
    /\ rl' = [rl EXCEPT ![c] = "inv_send"]
    /\ UNCHANGED << rl_sid, queue >>

\* ConnectionState::invalidate_session up to and including destroy_session.
invalidate_session(c) ==
    IF IsSome(session_id[c])
    THEN /\ sessions' = destroy_session(sessions, Unwrap(session_id[c]))
         /\ issued' = IssueDestroy(Unwrap(session_id[c]))
         /\ rl' = [rl EXCEPT ![c] = "inv_send"]
         /\ UNCHANGED << rl_sid, queue >>
    ELSE UNCHANGED << sessions, issued, rl, rl_sid, queue >>

\* The checks of Identify without the token check.
identify_checks_intents_only(data) ==
    IF ~IntentsContains(allowed_intents(config.application_flags), data.intents)
    THEN 4014 ELSE 0

\* The two checks of Identify with the token check first.
identify_checks_token_first(data) ==
    IF ~TokenOk(data.token)
    THEN 4004
    ELSE IF ~IntentsContains(allowed_intents(config.application_flags), data.intents)
    THEN 4014 ELSE 0

\* process, Identify: the two checks in the code's order; the close code of
\* the check that fails, 0 when both pass.
identify_checks(data) ==
    IF ~IntentsContains(allowed_intents(config.application_flags), data.intents)
    THEN 4014
    ELSE IF ~TokenOk(data.token) THEN 4004 ELSE 0

\* ConnectionState::process, up to and including its first access to the
\* registry or the channel.
process(c, event) ==
    CASE event.op = "Identify" ->
            IF IsSome(into_identify(event))
            THEN LET data == Unwrap(into_identify(event)) IN
                 IF identify_checks(data) = 4014
                 THEN close(c, 4014, DISALLOWED_INTENTS_ERROR_MSG)
                 ELSE IF identify_checks(data) = 4004
                 THEN close(c, 4004, AUTHENTICATION_FAILED_ERROR_MSG)
                 ELSE \E sid \in SessionIds :
                        /\ sessions' = create_session(sessions, sid, data)
                        /\ issued' = IssueCreate(sid)
                        /\ rl_sid' = [rl_sid EXCEPT ![c] = sid]
                        /\ rl' = [rl EXCEPT ![c] = "id_bind"]
                        /\ UNCHANGED queue
            ELSE invalidate_session(c)
      [] event.op = "Resume" ->
            IF IsSome(into_resume(event))
            THEN LET data == Unwrap(into_resume(event)) IN
                 IF ~TokenOk(data.token)
                 THEN close(c, 4004, AUTHENTICATION_FAILED_ERROR_MSG)
                 ELSE IF exists(sessions, data.session_id) /\ ~config.expired_sessions
                 THEN /\ rl_sid' = [rl_sid EXCEPT ![c] = data.session_id]
                      /\ rl' = [rl EXCEPT ![c] = "rs_bind"]
                      /\ UNCHANGED << sessions, issued, queue >>
                 ELSE /\ rl' = [rl EXCEPT ![c] = "inv_destroy"]
                      /\ UNCHANGED << sessions, issued, rl_sid, queue >>
            ELSE invalidate_session(c)
      [] event.op = "Heartbeat" ->
            IF ~config.unanswered_heartbeats
            THEN /\ queue' = Enqueue(c, TextMessage(heartbeat_ack))
                 /\ rl' = AfterSend(c, "read")
                 /\ UNCHANGED << sessions, rl_sid, issued >>
            ELSE UNCHANGED << sessions, issued, rl, rl_sid, queue >>
      [] OTHER -> UNCHANGED << sessions, issued, rl, rl_sid, queue >>

\* Connection::handle, one turn of the loop: take a message of the client,
\* decode it, and run process up to its first shared access.
Receive(c, msg) ==
    /\ ~exited
    /\ rl[c] = "read"
    /\ inbound < MaxInbound
    /\ cur' = [cur EXCEPT ![c] = msg]
    /\ inbound' = inbound + 1
    /\ IF msg.kind \notin {"Text", "Binary"}
       THEN UNCHANGED << sessions, issued, rl, rl_sid, queue >>
       ELSE IF msg.decoded = None
       THEN close(c, 4002, PAYLOAD_DECODE_ERROR_MSG)
       ELSE process(c, Unwrap(msg.decoded))
    /\ UNCHANGED << config, script_txt, SCRIPT, exited, rl_seq, sequence, session_id, fwd, drivers >>

\* process, Identify: set_session_id, then the fetch_add of send_data(ready).
\* The slot is written by the read loop alone and read by drivers spawned
\* after its first write, so no other task sees the write apart.
IdentifyBind(c) ==
    /\ ~exited
    /\ rl[c] = "id_bind"
    /\ session_id' = [session_id EXCEPT ![c] = set_session_id(@, rl_sid[c])]
    /\ rl_seq' = [rl_seq EXCEPT ![c] = send_data_sequence(c, ready(rl_sid[c]))]
    /\ sequence' = send_data_fetch_add(c, ready(rl_sid[c]))
    /\ rl' = [rl EXCEPT ![c] = "id_send"]
    /\ UNCHANGED << config, script_txt, SCRIPT, exited, sessions, cur, inbound, rl_sid, queue, fwd, drivers, issued >>

\* set_ready whether or not the send before it succeeded.
set_ready_after_failed_send(c) == [drivers EXCEPT ![c] = Append(@, NewDriver)]

\* ConnectionState::set_ready after a send that succeeded.
set_ready(c) ==
    IF SendOk(c) THEN [drivers EXCEPT ![c] = Append(@, NewDriver)] ELSE drivers

\* process, Identify: the enqueue of READY, then set_ready.
IdentifySend(c) ==
    /\ ~exited
    /\ rl[c] = "id_send"
    /\ queue' = Enqueue(c, TextMessage(FromData(rl_seq[c], ready(rl_sid[c]))))
    /\ drivers' = set_ready(c)
    /\ rl' = AfterSend(c, "read")
    /\ rl_sid' = [rl_sid EXCEPT ![c] = 0]
    /\ rl_seq' = [rl_seq EXCEPT ![c] = 0]
    /\ UNCHANGED << config, script_txt, SCRIPT, exited, sessions, cur, inbound, sequence, session_id,
                    fwd, issued >>

\* process, Resume: set_session_id, then the fetch_add of send_data(Resumed).
ResumeBind(c) ==
    /\ ~exited
    /\ rl[c] = "rs_bind"
    /\ session_id' = [session_id EXCEPT ![c] = set_session_id(@, rl_sid[c])]
    /\ rl_seq' = [rl_seq EXCEPT ![c] = send_data_sequence(c, Resumed)]
    /\ sequence' = send_data_fetch_add(c, Resumed)
    /\ rl' = [rl EXCEPT ![c] = "rs_send"]
    /\ UNCHANGED << config, script_txt, SCRIPT, exited, sessions, cur, inbound, rl_sid, queue, fwd, drivers, issued >>

\* process, Resume: the enqueue of RESUMED, then set_ready.
ResumeSend(c) ==
    /\ ~exited
    /\ rl[c] = "rs_send"
    /\ queue' = Enqueue(c, TextMessage(FromData(rl_seq[c], Resumed)))
    /\ drivers' = set_ready(c)
    /\ rl' = AfterSend(c, "read")
    /\ rl_sid' = [rl_sid EXCEPT ![c] = 0]
    /\ rl_seq' = [rl_seq EXCEPT ![c] = 0]
    /\ UNCHANGED << config, script_txt, SCRIPT, exited, sessions, cur, inbound, sequence, session_id,
                    fwd, issued >>

\* process, Resume refused after the exists check: invalidate_session(false).
InvalidateDestroy(c) ==
    /\ ~exited
    /\ rl[c] = "inv_destroy"
    /\ IF IsSome(session_id[c])
       THEN invalidate_session(c)
       ELSE /\ rl' = [rl EXCEPT ![c] = "read"]
            /\ UNCHANGED << sessions, issued, rl_sid, queue >>
    /\ UNCHANGED << config, script_txt, SCRIPT, exited, cur, inbound, rl_seq, sequence, session_id,
                    fwd, drivers >>

\* invalidate_session: send_data(InvalidSession(false)).
InvalidateSend(c) ==
    /\ ~exited
    /\ rl[c] = "inv_send"
    /\ sequence' = send_data_fetch_add(c, InvalidSession(FALSE))
    /\ queue' = Enqueue(c, TextMessage(FromData(send_data_sequence(c, InvalidSession(FALSE)),
                                                InvalidSession(FALSE))))
    /\ rl' = AfterSend(c, "inv_close")
    /\ UNCHANGED << config, script_txt, SCRIPT, exited, sessions, cur, inbound, rl_sid, rl_seq, session_id,
                    fwd, drivers, issued >>

\* invalidate_session: close(CloseCode::Normal, "").
InvalidateClose(c) ==
    /\ ~exited
    /\ rl[c] = "inv_close"
    /\ queue' = Enqueue(c, CloseMessage(1000, ""))
    /\ rl' = AfterSend(c, "read")
    /\ UNCHANGED << config, script_txt, SCRIPT, exited, sessions, cur, inbound, rl_sid, rl_seq, sequence,
                    session_id, fwd, drivers, issued >>

\* Connection::handle: stream.next() yields None or an error (peer close,
\* read error); the loop ends and the Connection is dropped.
Terminate(c) ==
    /\ ~exited
    /\ rl[c] = "read"
    /\ rl' = [rl EXCEPT ![c] = "done"]
    /\ UNCHANGED << config, script_txt, SCRIPT, exited, sessions, cur, inbound, rl_sid, rl_seq, sequence,
                    session_id, queue, fwd, drivers, issued >>

(* ----------------------------- script driver --------------------------- *)

\* The driver leaves out the action after this one.
NextAction_skips_one(d) == [pc |-> d.pc + 2, step |-> 0, seq |-> 0]

\* The driver goes on to the next action of the list.
NextAction(d) == [pc |-> d.pc + 1, step |-> 0, seq |-> 0]

SetDriver(c, i, d) == [drivers EXCEPT ![c][i] = d]

\* script::run, Action::Sleep.
RunSleep(c, i) ==
    /\ drivers' = SetDriver(c, i, NextAction(drivers[c][i]))
    /\ UNCHANGED << sessions, issued, sequence, queue >>

\* script::run, Action::InvalidateSession(resumable): invalidate_session in
\* three steps (destroy_session, send_data, close); an error of a send ends
\* invalidate_session, the driver ignores it.
RunInvalidateSession(c, i, resumable) ==
    LET d == drivers[c][i] IN
    CASE d.step = 0 ->
            IF IsSome(session_id[c])
            THEN /\ sessions' = destroy_session(sessions, Unwrap(session_id[c]))
                 /\ issued' = IssueDestroy(Unwrap(session_id[c]))
                 /\ drivers' = SetDriver(c, i, [d EXCEPT !.step = 1])
                 /\ UNCHANGED << sequence, queue >>
            ELSE /\ drivers' = SetDriver(c, i, NextAction(d))
                 /\ UNCHANGED << sessions, issued, sequence, queue >>
      [] d.step = 1 ->
            /\ sequence' = send_data_fetch_add(c, InvalidSession(resumable))
            /\ queue' = Enqueue(c, TextMessage(FromData(
                            send_data_sequence(c, InvalidSession(resumable)),
                            InvalidSession(resumable))))
            /\ drivers' = SetDriver(c, i, IF SendOk(c) THEN [d EXCEPT !.step = 2]
                                          ELSE NextAction(d))
            /\ UNCHANGED << sessions, issued >>
      [] OTHER ->
            /\ queue' = Enqueue(c, CloseMessage(1000, ""))
            /\ drivers' = SetDriver(c, i, NextAction(d))
            /\ UNCHANGED << sessions, issued, sequence >>

\* script::run, Action::Dispatch: send_data(raw_dispatch) in two steps, the
\* fetch_add on the counter and the send on the channel.
RunDispatch(c, i, event_type) ==
    LET d == drivers[c][i] IN
    IF d.step = 0
    THEN /\ sequence' = send_data_fetch_add(c, raw_dispatch(event_type))
         /\ drivers' = SetDriver(c, i, [d EXCEPT !.step = 1,
                            !.seq = send_data_sequence(c, raw_dispatch(event_type))])
         /\ UNCHANGED << sessions, issued, queue >>
    ELSE /\ queue' = Enqueue(c, TextMessage(FromData(d.seq, raw_dispatch(event_type))))
         /\ drivers' = SetDriver(c, i, NextAction(d))
         /\ UNCHANGED << sessions, issued, sequence >>

\* script::run, Action::Heartbeat: writer.send(GatewayEvent::heartbeat()).
RunHeartbeat(c, i) ==
    /\ queue' = Enqueue(c, TextMessage(heartbeat))
    /\ drivers' = SetDriver(c, i, NextAction(drivers[c][i]))
    /\ UNCHANGED << sessions, issued, sequence >>

\* config::SCRIPT, the initialiser on a file that does not parse: exit(1).
ScriptExit ==
    /\ exited' = TRUE
    /\ UNCHANGED << SCRIPT, sessions, issued, sequence, queue, drivers >>

\* script::run: one step of driver i of connection c.  SCRIPT.iter() is
\* the first use of SCRIPT in the program: the first step of the first
\* driver runs the initialiser, which parses script.txt.
run(c, i) ==
    /\ ~exited
    /\ i \in DOMAIN drivers[c]
    /\ ~DriverDone(drivers[c][i])
    /\ IF SCRIPT = None /\ ~parse(script_txt).ok
       THEN ScriptExit
       ELSE LET actions == IF SCRIPT = None THEN parse(script_txt).value
                           ELSE Unwrap(SCRIPT)
            IN  /\ SCRIPT' = Some(actions)
                /\ UNCHANGED exited
                /\ IF drivers[c][i].pc > Len(actions)
                   THEN UNCHANGED << sessions, issued, sequence, queue, drivers >>
                   ELSE LET action == actions[drivers[c][i].pc] IN
                        CASE action.kind = "Sleep" -> RunSleep(c, i)
                          [] action.kind = "InvalidateSession" ->
                                 RunInvalidateSession(c, i, action.flag)
                          [] action.kind = "Dispatch" ->
                                 RunDispatch(c, i, action.event_type)
                          [] action.kind = "Heartbeat" -> RunHeartbeat(c, i)
                          [] OTHER -> RunSleep(c, i)
    /\ UNCHANGED << config, script_txt, rl, cur, inbound, rl_sid, rl_seq, session_id,
                    fwd >>

(* ---------------------------- write forwarder -------------------------- *)

\* write_forward_task: sink.send fails on a message of the channel; the
\* task ends and drops the receiver, with it every message still in the
\* channel.  A sink.send that succeeds changes nothing the other tasks can
\* see (they see the receiver alone), and how far the forwarder has got in
\* the channel is up to the scheduler, so the failure may come at any time
\* once a message was enqueued.
ForwardFail(c) ==
    /\ ~exited
    /\ fwd[c] = "running"
    /\ Len(queue[c]) > 0
    /\ fwd' = [fwd EXCEPT ![c] = "exited"]
    /\ UNCHANGED << config, script_txt, SCRIPT, exited, sessions, rl, cur, inbound, rl_sid, rl_seq,
                    sequence, session_id, queue, drivers, issued >>

\* write_forward_task: rx.recv() yields None once the channel is empty and
\* every sender (the Connection, each driver's clone) is dropped.
ForwardEnd(c) ==
    /\ ~exited
    /\ fwd[c] = "running"
    /\ rl[c] = "done"
    /\ \A i \in DOMAIN drivers[c] : DriverDone(drivers[c][i])
    /\ fwd' = [fwd EXCEPT ![c] = "exited"]
    /\ UNCHANGED << config, script_txt, SCRIPT, exited, sessions, rl, cur, inbound, rl_sid, rl_seq,
                    sequence, session_id, queue, drivers, issued >>

(* ---------------------------- specification ---------------------------- *)

Next ==
    \E c \in Conns :
        \/ Accept(c)
        \/ SendHello(c)
        \/ \E msg \in Inbound : Receive(c, msg)
        \/ IdentifyBind(c)
        \/ IdentifySend(c)
        \/ ResumeBind(c)
        \/ ResumeSend(c)
        \/ InvalidateDestroy(c)
        \/ InvalidateSend(c)
        \/ InvalidateClose(c)
        \/ Terminate(c)
        \/ \E i \in 1..MaxInbound : run(c, i)
        \/ ForwardFail(c)
        \/ ForwardEnd(c)

Spec == Init /\ [][Next]_vars

\* The server after earlier connections, closed since, have identified:
\* nothing removes a session when its connection ends, so their sessions
\* are in the registry, and their drivers have initialised SCRIPT (from a
\* file that parses, or the process would have exited).
InitEarlier ==
    /\ config \in Configs
    /\ script_txt \in { file \in ScriptFiles : parse(file).ok }
    /\ SCRIPT = Some(parse(script_txt).value)
    /\ exited = FALSE
    /\ sessions = [ sid \in SessionIds |->
                       SessionFrom(IdentifyInfo(ValidToken, {"GUILDS"})) ]
    /\ rl = [c \in Conns |-> "idle"]
    /\ cur = [c \in Conns |-> NoMsg]
    /\ inbound = 0
    /\ rl_sid = [c \in Conns |-> 0]
    /\ rl_seq = [c \in Conns |-> 0]
    /\ sequence = [c \in Conns |-> 0]
    /\ session_id = [c \in Conns |-> None]
    /\ queue = [c \in Conns |-> <<>>]
    /\ fwd = [c \in Conns |-> "none"]
    /\ drivers = [c \in Conns |-> <<>>]
    /\ issued = [s \in SessionIds |-> "create"]

SpecEarlier == InitEarlier /\ [][Next]_vars

(* ------------------------------- claims -------------------------------- *)

IsDispatchFrame(m) == m.kind = "Text" /\ m.op = "Dispatch"

\* The dispatch frames of connection c in the order they were enqueued.
Dispatches(c) == SelectSeq(queue[c], IsDispatchFrame)

IsReadyFrame(m) == IsDispatchFrame(m) /\ m.t = Some("READY")

IsHelloFrame(m) ==
    /\ m.kind = "Text"
    /\ m.op = "Hello"
    /\ IsSome(m.d)
    /\ Unwrap(m.d).variant = "Hello"
    /\ Unwrap(m.d).heartbeat_interval = 41250

\* C1: on every connection the first message enqueued is the Hello frame
\* with heartbeat_interval 41250, and nothing is enqueued before the read
\* loop has sent it.
C1_HelloFirst ==
    \A c \in Conns :
        /\ rl[c] \in {"idle", "hello"} => queue[c] = <<>>
        /\ rl[c] \notin {"idle", "hello"} => queue[c] # <<>> /\ IsHelloFrame(queue[c][1])

\* C1 witness: a connection that has enqueued Hello and a later frame.
C1_Witness ==
    \E c \in Conns : Len(queue[c]) >= 2 /\ IsHelloFrame(queue[c][1])

\* C2 (as claimed): of two dispatch frames that follow each other in the
\* queue of a connection, the second carries the s of the first plus 1.
C2_GapFree ==
    \A c \in Conns :
        \A i \in 1..(Len(Dispatches(c)) - 1) :
            Dispatches(c)[i + 1].s = Some(Unwrap(Dispatches(c)[i].s) + 1)

\* C3 (as claimed): the first dispatch frame of a connection carries s = 1.
C3_FirstDispatchIsOne ==
    \A c \in Conns :
        Dispatches(c) # <<>> => Dispatches(c)[1].s = Some(1)

\* The payloads send_data in flight on connection c has taken a sequence
\* number for and not yet enqueued.
InFlight(c) ==
    (IF rl[c] \in {"id_send", "rs_send"} THEN 1 ELSE 0)
    + Cardinality({ i \in DOMAIN drivers[c] :
                      /\ drivers[c][i].step = 1
                      /\ Unwrap(SCRIPT)[drivers[c][i].pc].kind = "Dispatch" })

\* C4: a frame carries s and t exactly if its op is Dispatch, the frames
\* built from Ready, Resumed and RawDispatch are the dispatch frames, and
\* the counter counts dispatch frames alone: while no send has failed it
\* equals the number of dispatch frames enqueued or about to be.
C4_SeqAndTypeOnlyOnDispatch ==
    \A c \in Conns :
        /\ \A i \in DOMAIN queue[c] :
              LET m == queue[c][i] IN
              m.kind = "Text" =>
                /\ IsSome(m.s) <=> m.op = "Dispatch"
                /\ IsSome(m.t) <=> m.op = "Dispatch"
                /\ m.op = "Dispatch" <=>
                      IsSome(m.d) /\ Unwrap(m.d).variant \in {"Ready", "Resumed", "RawDispatch"}
                /\ m.op \in {"Hello", "InvalidSession", "HeartbeatAck", "Heartbeat"}
                      => m.s = None /\ m.t = None
        /\ fwd[c] = "running" => sequence[c] = Len(Dispatches(c)) + InFlight(c)

\* C4 witness: a queue holding Hello, a dispatch frame, an InvalidSession
\* frame and a frame without payload (the ack or the script's heartbeat).
C4_Witness ==
    \E c \in Conns :
        /\ fwd[c] = "running"
        /\ \E i \in DOMAIN queue[c] : queue[c][i].op = "Dispatch"
        /\ \E i \in DOMAIN queue[c] :
              queue[c][i].op \in {"InvalidSession", "HeartbeatAck", "Heartbeat"}
        /\ sequence[c] >= 2

\* C5 (as claimed): every READY frame of a connection carries the session
\* id bound to that connection.
C5_ReadyCarriesBoundId ==
    \A c \in Conns :
        \A i \in DOMAIN queue[c] :
            IsReadyFrame(queue[c][i]) =>
                session_id[c] = Some(Unwrap(queue[c][i].d).session_id)

\* C6: the session id of every READY frame was created, and it is a key of
\* the registry (exists) as long as no destroy_session has been issued for
\* it since; once one has, exists is false.
C6_ReadyIdExistsUntilDestroyed ==
    \A c \in Conns :
        \A i \in DOMAIN queue[c] :
            IsReadyFrame(queue[c][i]) =>
                LET sid == Unwrap(queue[c][i].d).session_id IN
                /\ sid \in SessionIds
                /\ issued[sid] # "none"
                /\ issued[sid] = "create" => exists(sessions, sid)
                /\ issued[sid] \in {"destroy", "destroy_again"} => ~exists(sessions, sid)

\* C6 witness: a READY frame whose session id exists, and one whose
\* session id was destroyed.
C6_Witness ==
    \E c, b \in Conns :
        /\ \E i \in DOMAIN queue[c] :
              /\ IsReadyFrame(queue[c][i])
              /\ exists(sessions, Unwrap(queue[c][i].d).session_id)
        /\ \E i \in DOMAIN queue[b] :
              /\ IsReadyFrame(queue[b][i])
              /\ issued[Unwrap(queue[b][i].d).session_id] = "destroy"
              /\ ~exists(sessions, Unwrap(queue[b][i].d).session_id)

\* C7: once the session id slot of a connection holds an id, no step
\* changes it.
C7_SessionIdSetOnce ==
    [][\A c \in Conns : IsSome(session_id[c]) => session_id'[c] = session_id[c]]_vars

\* C7 witness: a connection bound to one id that has since been sent a
\* READY for another id (a later Identify), the slot still holding the first.
C7_Witness ==
    \E c \in Conns :
        /\ IsSome(session_id[c])
        /\ \E i \in DOMAIN queue[c] :
              /\ IsReadyFrame(queue[c][i])
              /\ Unwrap(queue[c][i].d).session_id # Unwrap(session_id[c])

\* C8: the keys of the registry are the ids created and not destroyed
\* since, and the end of a read loop or of a write forwarder leaves the
\* registry as it is.
C8_RegistryIffNotDestroyed ==
    /\ [](DOMAIN sessions = { sid \in SessionIds : issued[sid] = "create" })
    /\ [][\A c \in Conns :
            (rl[c] # "done" /\ rl'[c] = "done") \/ (fwd[c] # fwd'[c])
                => sessions' = sessions]_vars

\* C8 witness: the connection that created a session has ended, after a
\* failed write, and another connection has resumed that session.
C8_Witness ==
    \E c, b \in Conns :
        /\ c # b
        /\ rl[c] = "done"
        /\ fwd[c] = "exited"
        /\ \E i \in DOMAIN queue[c] :
              /\ IsReadyFrame(queue[c][i])
              /\ exists(sessions, Unwrap(queue[c][i].d).session_id)
              /\ session_id[b] = Some(Unwrap(queue[c][i].d).session_id)
        /\ \E i \in DOMAIN queue[b] : queue[b][i].t = Some("RESUMED")

\* C9: destroy_session twice gives the registry destroy_session once gives,
\* on an id that is no key it gives the registry back, and a step that
\* issues it for an id destroyed already leaves the registry unchanged.
C9_DestroyIdempotent ==
    /\ [](\A sid \in SessionIds :
            /\ destroy_session(destroy_session(sessions, sid), sid)
                 = destroy_session(sessions, sid)
            /\ ~exists(sessions, sid) => destroy_session(sessions, sid) = sessions)
    /\ [][\A sid \in SessionIds :
            issued[sid] = "destroy" /\ issued'[sid] = "destroy_again"
                => sessions' = sessions]_vars

\* C9 witness: destroy_session has been issued for an id destroyed already.
C9_Witness ==
    \E sid \in SessionIds : issued[sid] = "destroy_again" /\ ~exists(sessions, sid)

\* C10: an Identify whose intents are not permitted is answered by close
\* 4014 whatever its token; one whose intents are permitted and whose token
\* is not "Bot " and the configured token by close 4004; one that passes
\* both by no close frame.
C10_IntentCheckFirst ==
    [][\A c \in Conns :
          /\ inbound' = inbound + 1
          /\ rl[c] = "read"
          /\ IsSome(cur'[c].decoded)
          /\ Unwrap(cur'[c].decoded).op = "Identify"
          /\ IsSome(into_identify(Unwrap(cur'[c].decoded)))
          /\ Receive(c, cur'[c])
          => LET data == Unwrap(Unwrap(cur'[c].decoded).d)
                 permitted == data.intents \subseteq allowed_intents(config.application_flags)
                 valid == data.token = <<"B", "o", "t", " ">> \o BotToken
                 sent(m) == queue'[c] = IF SendOk(c) THEN Append(queue[c], m) ELSE queue[c]
             IN  /\ ~permitted => sent(CloseMessage(4014, "Disallowed intent(s)."))
                 /\ permitted /\ ~valid => sent(CloseMessage(4004, "Authentication failed."))
                 /\ permitted /\ valid => queue'[c] = queue[c]
      ]_vars

\* C10 witness: an Identify with intents that are not permitted and a wrong
\* token was answered by close 4014.
C10_Witness ==
    \E c \in Conns :
        /\ cur[c] = Msg("Text", Some(Ev("Identify",
                        Some(IdentifyInfo(WrongToken, {"GUILDS", "GUILD_MEMBERS"})))))
        /\ queue[c][Len(queue[c])] = CloseMessage(4014, "Disallowed intent(s).")

IsCloseFrame(m, code) == m.kind = "Close" /\ m.code = code

IsInvalidSessionFrame(m) == m.kind = "Text" /\ m.op = "InvalidSession"

IsResumedFrame(m) == IsDispatchFrame(m) /\ m.t = Some("RESUMED")

\* C11: an Identify that is rejected (intents not permitted, or a token
\* that is not "Bot " and the configured token) leaves the registry, the
\* session id slots, the sequence counters and the drivers as they were and
\* starts no further step of the read loop; the one frame it may enqueue is
\* the close frame 4014 or 4004, on its own connection.
C11_RejectedIdentifyOnlyCloses ==
    [][\A c \in Conns :
          /\ inbound' = inbound + 1
          /\ rl[c] = "read"
          /\ IsSome(cur'[c].decoded)
          /\ Unwrap(cur'[c].decoded).op = "Identify"
          /\ IsSome(into_identify(Unwrap(cur'[c].decoded)))
          /\ Receive(c, cur'[c])
          /\ LET data == Unwrap(Unwrap(cur'[c].decoded).d) IN
             \/ ~(data.intents \subseteq allowed_intents(config.application_flags))
             \/ data.token # <<"B", "o", "t", " ">> \o BotToken
          => /\ sessions' = sessions
             /\ issued' = issued
             /\ session_id' = session_id
             /\ sequence' = sequence
             /\ drivers' = drivers
             /\ rl'[c] \in {"read", "done"}
             /\ \A b \in Conns : b # c => queue'[b] = queue[b]
             /\ \/ queue'[c] = queue[c]
                \/ /\ Len(queue'[c]) = Len(queue[c]) + 1
                   /\ SubSeq(queue'[c], 1, Len(queue[c])) = queue[c]
                   /\ \/ IsCloseFrame(queue'[c][Len(queue'[c])], 4014)
                      \/ IsCloseFrame(queue'[c][Len(queue'[c])], 4004)
      ]_vars

\* C11 witness: a connection bound to a session has taken an Identify with
\* a wrong token and enqueued close 4004 for it; the session is still in
\* the registry.
C11_Witness ==
    \E c \in Conns :
        /\ cur[c] = Msg("Text", Some(Ev("Identify", Some(IdentifyInfo(WrongToken, {"GUILDS"})))))
        /\ rl[c] = "read"
        /\ IsCloseFrame(queue[c][Len(queue[c])], 4004)
        /\ IsSome(session_id[c])
        /\ exists(sessions, Unwrap(session_id[c]))

\* The message is an Identify or a Resume whose payload is not of its kind.
IsMalformed(msg) ==
    /\ IsSome(msg.decoded)
    /\ \/ Unwrap(msg.decoded).op = "Identify" /\ into_identify(Unwrap(msg.decoded)) = None
       \/ Unwrap(msg.decoded).op = "Resume" /\ into_resume(Unwrap(msg.decoded)) = None

\* The message is a Resume with the valid token.
IsValidTokenResume(msg) ==
    /\ IsSome(msg.decoded)
    /\ Unwrap(msg.decoded).op = "Resume"
    /\ IsSome(into_resume(Unwrap(msg.decoded)))
    /\ Unwrap(Unwrap(msg.decoded).d).token = <<"B", "o", "t", " ">> \o BotToken

\* C12 (as claimed): once the read loop is through with a malformed
\* Identify or Resume, or with a Resume with the valid token that names a
\* session id no one ever created or that came while expired_sessions is
\* set, the queue of the connection (no send having failed) holds an
\* InvalidSession frame with d = false and a close frame 1000 after it,
\* whether or not the connection has a session id.
C12_InvalidSessionOnRefusal ==
    \A c \in Conns :
        /\ rl[c] = "read"
        /\ fwd[c] = "running"
        /\ \/ IsMalformed(cur[c])
           \/ /\ IsValidTokenResume(cur[c])
              /\ \/ config.expired_sessions
                 \/ issued[Unwrap(Unwrap(cur[c].decoded).d).session_id] = "none"
        => \E i, j \in DOMAIN queue[c] :
              /\ i < j
              /\ IsInvalidSessionFrame(queue[c][i])
              /\ Unwrap(queue[c][i].d).resumable = FALSE
              /\ IsCloseFrame(queue[c][j], 1000)

\* C13 (as claimed): a Resume with the valid token gets as far as binding
\* and sending only if expired_sessions is not set and the claimed session
\* id was created some time; once it has bound, the session id of the
\* connection is the claimed one; and with expired_sessions set no queue
\* ever holds a RESUMED frame.
C13_ResumeBindsClaimedId ==
    \A c \in Conns :
        /\ rl[c] \in {"rs_bind", "rs_send"} =>
              /\ IsValidTokenResume(cur[c])
              /\ ~config.expired_sessions
              /\ issued[Unwrap(Unwrap(cur[c].decoded).d).session_id] # "none"
        /\ rl[c] = "rs_send" =>
              session_id[c] = Some(Unwrap(Unwrap(cur[c].decoded).d).session_id)
        /\ config.expired_sessions =>
              \A i \in DOMAIN queue[c] : ~IsResumedFrame(queue[c][i])

\* C14: the step that takes a client Heartbeat, in whatever state the
\* connection is, enqueues nothing when unanswered_heartbeats is set, and
\* otherwise (the channel being open) exactly one frame: op HeartbeatAck,
\* no payload, no s, no t; the sequence counter stays as it was and the
\* read loop is through with the frame.
C14_HeartbeatAck ==
    [][\A c \in Conns :
          /\ inbound' = inbound + 1
          /\ rl[c] = "read"
          /\ IsSome(cur'[c].decoded)
          /\ Unwrap(cur'[c].decoded).op = "Heartbeat"
          /\ Receive(c, cur'[c])
          => /\ sequence' = sequence
             /\ rl'[c] \in {"read", "done"}
             /\ \A b \in Conns : b # c => queue'[b] = queue[b]
             /\ config.unanswered_heartbeats \/ ~SendOk(c) => queue'[c] = queue[c]
             /\ ~config.unanswered_heartbeats /\ SendOk(c) =>
                   queue'[c] = Append(queue[c],
                       [ kind |-> "Text", t |-> None, s |-> None, op |-> "HeartbeatAck",
                         d |-> None, code |-> 0, reason |-> "" ])
      ]_vars

\* C14 witness: a connection that is bound to a session, with a driver
\* spawned that has not run yet, has answered the client's Heartbeat with
\* the ack.
C14_Witness ==
    \E c \in Conns :
        /\ cur[c] = Msg("Text", Some(Ev("Heartbeat", None)))
        /\ ~config.unanswered_heartbeats
        /\ IsSome(session_id[c])
        /\ drivers[c] # <<>>
        /\ \A k \in DOMAIN drivers[c] : drivers[c][k] = NewDriver
        /\ \E i \in DOMAIN queue[c] :
              /\ i > 1
              /\ IsReadyFrame(queue[c][i - 1])
              /\ queue[c][i].op = "HeartbeatAck"

\* C15 (as claimed): the step of a script driver that runs the action
\* `heartbeat` enqueues (the channel being open) one frame whose op is
\* Heartbeat, not HeartbeatAck.
C15_ScriptHeartbeatOp ==
    [][\A c \in Conns : \A i \in DOMAIN drivers[c] :
          /\ IsSome(SCRIPT')
          /\ drivers[c][i].pc <= Len(Unwrap(SCRIPT'))
          /\ Unwrap(SCRIPT')[drivers[c][i].pc].kind = "Heartbeat"
          /\ drivers'[c][i] = NextAction(drivers[c][i])
          /\ SendOk(c)
          => /\ Len(queue'[c]) = Len(queue[c]) + 1
             /\ queue'[c][Len(queue'[c])].op = "Heartbeat"
      ]_vars

\* A frame that only a script driver builds: a dispatch that is neither
\* READY nor RESUMED, or InvalidSession with d = true (the read loop sends
\* d = false alone).
IsDriverFrame(m) ==
    \/ IsDispatchFrame(m) /\ ~IsReadyFrame(m) /\ ~IsResumedFrame(m)
    \/ IsInvalidSessionFrame(m) /\ Unwrap(m.d).resumable

\* C16: a connection that has a driver (started, running or finished) has a
\* bound session id and READY or RESUMED in its queue, so every step of a
\* driver comes after that frame was enqueued; and every frame in a queue
\* that only a driver builds has READY or RESUMED somewhere before it.
C16_ReadyBeforeDriver ==
    \A c \in Conns :
        /\ drivers[c] # <<>> =>
              /\ IsSome(session_id[c])
              /\ \E i \in DOMAIN queue[c] :
                    IsReadyFrame(queue[c][i]) \/ IsResumedFrame(queue[c][i])
        /\ \A j \in DOMAIN queue[c] :
              IsDriverFrame(queue[c][j]) =>
                 \E i \in 1..(j - 1) :
                    IsReadyFrame(queue[c][i]) \/ IsResumedFrame(queue[c][i])

\* C16 witness: a queue with RESUMED, a dispatch of the script after it,
\* and the InvalidSession(true) of the script after that.
C16_Witness ==
    \E c \in Conns :
        \E i, j, k \in DOMAIN queue[c] :
            /\ i < j /\ j < k
            /\ IsResumedFrame(queue[c][i])
            /\ IsDispatchFrame(queue[c][j]) /\ queue[c][j].t = Some("MESSAGE_CREATE")
            /\ IsInvalidSessionFrame(queue[c][k]) /\ Unwrap(queue[c][k].d).resumable

\* C17 (as claimed): with a script.txt that does not parse the process
\* exits before the listener accepts a connection: no connection is
\* accepted and no frame, Hello or READY, is enqueued.
C17_ParseErrorBeforeAccept ==
    ~parse(script_txt).ok =>
        \A c \in Conns : rl[c] = "idle" /\ queue[c] = <<>>

\* C18 (as claimed): once the read loop is through with a text or binary
\* message that does not decode, the queue (no send having failed) holds
\* the close frame 4002 "Error while decoding payload."; and a close frame
\* is the last frame of its queue: nothing is enqueued after it.
C18_ClosedAfterCloseFrame ==
    \A c \in Conns :
        /\ /\ rl[c] = "read"
           /\ fwd[c] = "running"
           /\ cur[c].kind \in {"Text", "Binary"}
           /\ cur[c].decoded = None
           => \E i \in DOMAIN queue[c] :
                 queue[c][i] = CloseMessage(4002, "Error while decoding payload.")
        /\ \A i \in DOMAIN queue[c] :
              queue[c][i].kind = "Close" => i = Len(queue[c])

\* The queue of c has grown by one frame, an InvalidSession with d = resumable.
AppendedInvalidSession(c, resumable) ==
    /\ Len(queue'[c]) = Len(queue[c]) + 1
    /\ SubSeq(queue'[c], 1, Len(queue[c])) = queue[c]
    /\ IsInvalidSessionFrame(queue'[c][Len(queue'[c])])
    /\ Unwrap(queue'[c][Len(queue'[c])].d).resumable = resumable

\* The queue of c has grown by one frame, the close frame 1000.
AppendedNormalClose(c) ==
    /\ Len(queue'[c]) = Len(queue[c]) + 1
    /\ SubSeq(queue'[c], 1, Len(queue[c])) = queue[c]
    /\ IsCloseFrame(queue'[c][Len(queue'[c])], 1000)

\* The registry without the session id bound to c.
WithoutBound(c) ==
    [ k \in DOMAIN sessions \ {Unwrap(session_id[c])} |-> sessions[k] ]

\* C19: invalidate_session, run by the read loop (resumable = false) or by
\* a script driver (resumable as the script says), on a connection with a
\* bound session id takes three steps in this order: it removes the bound
\* id from the registry (enqueuing nothing), enqueues InvalidSession with
\* d = resumable, enqueues close 1000 (a failed send ends it).  On a
\* connection without a bound id it changes neither registry nor queue.
\* In every queue a close frame 1000 has an InvalidSession frame before it.
C19_InvalidateOrder ==
    /\ [](\A c \in Conns : \A j \in DOMAIN queue[c] :
             IsCloseFrame(queue[c][j], 1000) =>
                \E i \in 1..(j - 1) : IsInvalidSessionFrame(queue[c][i]))
    /\ [][\A c \in Conns :
             /\ rl[c] # "inv_send" /\ rl'[c] = "inv_send" =>
                   /\ IsSome(session_id[c])
                   /\ sessions' = WithoutBound(c)
                   /\ queue' = queue
             /\ rl[c] = "inv_send" /\ rl'[c] # "inv_send" =>
                   /\ sessions' = sessions
                   /\ IF SendOk(c)
                      THEN AppendedInvalidSession(c, FALSE) /\ rl'[c] = "inv_close"
                      ELSE queue' = queue /\ rl'[c] = "done"
             /\ rl[c] = "inv_close" /\ rl'[c] # "inv_close" =>
                   /\ sessions' = sessions
                   /\ IF SendOk(c)
                      THEN AppendedNormalClose(c) /\ rl'[c] = "read"
                      ELSE queue' = queue /\ rl'[c] = "done"
             /\ /\ session_id[c] = None
                /\ \/ /\ inbound' = inbound + 1
                      /\ rl[c] = "read"
                      /\ IsMalformed(cur'[c])
                      /\ Receive(c, cur'[c])
                   \/ rl[c] = "inv_destroy" /\ rl'[c] # "inv_destroy"
                => sessions' = sessions /\ queue' = queue /\ rl'[c] = "read"
             /\ \A i \in DOMAIN drivers[c] :
                   /\ drivers'[c][i] # drivers[c][i]
                   /\ Unwrap(SCRIPT')[drivers[c][i].pc].kind = "InvalidateSession"
                   => LET d == drivers[c][i]
                          resumable == Unwrap(SCRIPT')[d.pc].flag
                      IN  CASE d.step = 0 ->
                                 /\ queue' = queue
                                 /\ IF IsSome(session_id[c])
                                    THEN /\ sessions' = WithoutBound(c)
                                         /\ drivers'[c][i] = [d EXCEPT !.step = 1]
                                    ELSE /\ sessions' = sessions
                                         /\ drivers'[c][i] = NextAction(d)
                            [] d.step = 1 ->
                                 /\ sessions' = sessions
                                 /\ IF SendOk(c)
                                    THEN /\ AppendedInvalidSession(c, resumable)
                                         /\ drivers'[c][i] = [d EXCEPT !.step = 2]
                                    ELSE /\ queue' = queue
                                         /\ drivers'[c][i] = NextAction(d)
                            [] OTHER ->
                                 /\ sessions' = sessions
                                 /\ IF SendOk(c) THEN AppendedNormalClose(c)
                                                 ELSE queue' = queue
                                 /\ drivers'[c][i] = NextAction(d)
         ]_vars

\* C19 witness: a bound connection took a malformed frame; its session is
\* out of the registry and its queue ends with InvalidSession(false) and
\* close 1000.
C19_Witness ==
    \E c \in Conns :
        /\ IsMalformed(cur[c])
        /\ rl[c] = "read"
        /\ IsSome(session_id[c])
        /\ ~exists(sessions, Unwrap(session_id[c]))
        /\ Len(queue[c]) >= 2
        /\ IsInvalidSessionFrame(queue[c][Len(queue[c]) - 1])
        /\ ~Unwrap(queue[c][Len(queue[c]) - 1].d).resumable
        /\ IsCloseFrame(queue[c][Len(queue[c])], 1000)

\* C20 (as claimed): a connection whose queue holds the close frame of a
\* rejected Identify or Resume (4014 or 4004) with neither READY nor
\* RESUMED before it, that is, rejected while it had no session, has no
\* bound session id, no driver, and neither READY nor RESUMED in its queue.
C20_NoReadyAfterRejection ==
    \A c \in Conns :
        (\E i \in DOMAIN queue[c] :
            /\ IsCloseFrame(queue[c][i], 4014) \/ IsCloseFrame(queue[c][i], 4004)
            /\ \A k \in 1..(i - 1) :
                  ~IsReadyFrame(queue[c][k]) /\ ~IsResumedFrame(queue[c][k]))
        => /\ session_id[c] = None
           /\ drivers[c] = <<>>
           /\ \A j \in DOMAIN queue[c] :
                 ~IsReadyFrame(queue[c][j]) /\ ~IsResumedFrame(queue[c][j])

\* C21 (as claimed): a connection has at most one script driver, started,
\* running or finished, whatever frames its client has sent.
C21_OneDriverPerConnection ==
    \A c \in Conns : Len(drivers[c]) <= 1

ReservedKinds == {"RandomMessageCreate", "RandomGuildCreate", "GracefulClose", "AbruptClose"}

\* The position of a driver that has left the action at d behind and is
\* about to run the one after it.
Following(d) == [pc |-> d.pc + 1, step |-> 0, seq |-> 0]

\* C22: every step of a script driver is a step on the action its position
\* names in the parsed list: it either stays on that action, one step
\* further into it (InvalidateSession and Dispatch take more than one
\* step), or goes on to the action right after it, never back, never past
\* one, never beyond the end of the list, where it stays for good; a step
\* whose send fails goes on to the next action all the same; and the step
\* on a reserved action changes the driver's position and nothing else.
C22_DriverWalksList ==
    [][\A c \in Conns :
          /\ Len(drivers'[c]) >= Len(drivers[c])
          /\ \A i \in DOMAIN drivers[c] :
                drivers'[c][i] # drivers[c][i] =>
                   LET d == drivers[c][i]
                       e == drivers'[c][i]
                       action == Unwrap(SCRIPT')[d.pc]
                   IN  /\ IsSome(SCRIPT')
                       /\ d.pc <= Len(Unwrap(SCRIPT'))
                       /\ \/ e = Following(d)
                          \/ /\ e = [d EXCEPT !.step = d.step + 1, !.seq = e.seq]
                             /\ \/ action.kind = "InvalidateSession" /\ d.step < 2
                                \/ action.kind = "Dispatch" /\ d.step < 1
                       /\ e.pc <= Len(Unwrap(SCRIPT')) + 1
                       /\ ~SendOk(c) /\ ~(action.kind \in {"Dispatch", "InvalidateSession"}
                                          /\ d.step = 0)
                             => e = Following(d) /\ queue' = queue
                       /\ action.kind \in ReservedKinds =>
                             /\ e = Following(d)
                             /\ UNCHANGED << sessions, issued, sequence, session_id, queue,
                                             rl, fwd, exited >>
                             /\ \A k \in DOMAIN drivers[c] : k # i =>
                                   drivers'[c][k] = drivers[c][k]
      ]_vars

\* C22 witness: with the script `heartbeat`, `graceful_close`, a driver has
\* come to the end of the list although the send of its heartbeat failed
\* (no frame without payload is in the queue).
C22_Witness ==
    \E c \in Conns : \E i \in DOMAIN drivers[c] :
        /\ IsSome(SCRIPT)
        /\ Len(Unwrap(SCRIPT)) = 2
        /\ Unwrap(SCRIPT)[1].kind = "Heartbeat"
        /\ Unwrap(SCRIPT)[2].kind = "GracefulClose"
        /\ drivers[c][i].pc = 3
        /\ \A j \in DOMAIN queue[c] : queue[c][j].op # "HeartbeatAck"

\* The message is an Identify or a Resume, well formed, whose token is
\* "Bot " and the configured token.
CarriesValidToken(msg) ==
    /\ IsSome(msg.decoded)
    /\ \/ /\ Unwrap(msg.decoded).op = "Identify"
          /\ IsSome(into_identify(Unwrap(msg.decoded)))
       \/ /\ Unwrap(msg.decoded).op = "Resume"
          /\ IsSome(into_resume(Unwrap(msg.decoded)))
    /\ Unwrap(Unwrap(msg.decoded).d).token = <<"B", "o", "t", " ">> \o BotToken

\* C23: the session id slot of a connection is written only by the read
\* loop while it works on a frame that carries the valid token, and once
\* written it stays; a step that changes the registry is either the read
\* loop of a connection taking an Identify with the valid token (a session
\* is created) or a task of a connection with a bound session id removing
\* that id.  So the frames of a client that never sends the valid token
\* bind nothing, create nothing and destroy nothing.
C23_ValidTokenNeeded ==
    [][/\ \A c \in Conns :
             /\ session_id[c] = None /\ session_id'[c] # None =>
                   CarriesValidToken(cur[c]) /\ rl[c] \in {"id_bind", "rs_bind"}
             /\ session_id[c] # None => session_id'[c] = session_id[c]
             /\ /\ inbound' = inbound + 1
                /\ rl[c] = "read"
                /\ session_id[c] = None
                /\ ~CarriesValidToken(cur'[c])
                /\ Receive(c, cur'[c])
                => /\ sessions' = sessions
                   /\ issued' = issued
                   /\ rl'[c] \notin {"id_bind", "rs_bind"}
       /\ sessions' # sessions \/ issued' # issued =>
             \E c \in Conns :
                \/ /\ rl[c] = "read"
                   /\ rl'[c] = "id_bind"
                   /\ CarriesValidToken(cur'[c])
                   /\ \E sid \in SessionIds :
                         /\ DOMAIN sessions' = DOMAIN sessions \cup {sid}
                         /\ issued' = [issued EXCEPT ![sid] = "create"]
                \/ /\ IsSome(session_id[c])
                   /\ \/ rl[c] # "inv_send" /\ rl'[c] = "inv_send"
                      \/ drivers'[c] # drivers[c]
                   /\ sessions' = WithoutBound(c)
      ]_vars

\* C23 witness: a connection was refused twice for its token (two close
\* frames 4004 in its queue); it is not bound, and the sessions that
\* earlier connections left in the registry are all there, none destroyed.
C23_Witness ==
    \E c \in Conns :
        /\ \E i, j \in DOMAIN queue[c] :
              i < j /\ IsCloseFrame(queue[c][i], 4004) /\ IsCloseFrame(queue[c][j], 4004)
        /\ session_id[c] = None
        /\ drivers[c] = <<>>
        /\ DOMAIN sessions = SessionIds
        /\ \A s \in SessionIds : issued[s] = "create"

\* C24 (as claimed): in the step that enqueues RESUMED on a connection, the
\* session id its Resume names is in the registry.
C24_ResumedSessionExists ==
    [][\A c \in Conns :
          /\ rl[c] = "rs_send"
          /\ Len(queue'[c]) = Len(queue[c]) + 1
          /\ IsResumedFrame(queue'[c][Len(queue'[c])])
          => exists(sessions, Unwrap(Unwrap(cur[c].decoded).d).session_id)
      ]_vars

====
